---------------------------- MODULE Spec2Model ----------------------------
(***************************************************************************)
(* Model of aws_glue_artifact/model.py: the two artifact facades           *)
(* GlueETLScriptArtifact and GluePythonLibArtifact over the versioned      *)
(* artifact Repository, together with the local file system they read and  *)
(* write and the artifact store behind the repository.                     *)
(*                                                                         *)
(* Values.  A path is a sequence of names (its components below the root). *)
(* Bytes and strings are sequences of small integers.  A mapping (a Python *)
(* dict of str to str) is a function from name strings to such sequences.  *)
(***************************************************************************)
EXTENDS Integers, Sequences, FiniteSets, TLC

(***************************************************************************)
(* Bounds of the model.                                                    *)
(***************************************************************************)
\* how many versions may be published under one artifact name
MaxVersions == 2

(***************************************************************************)
(* Paths (pathlib).                                                        *)
(***************************************************************************)
\* the working directory of the process
Cwd == <<"a">>

\* a path as the caller writes it: absolute, or relative to Cwd
AbsArg(parts) == [abs |-> TRUE, parts |-> parts]
RelArg(parts) == [abs |-> FALSE, parts |-> parts]

\* Path(p).absolute(): a relative path is joined to the working directory
Absolute(p) == IF p.abs THEN p.parts ELSE Cwd \o p.parts

\* Path.basename: the last component
Basename(p) == p[Len(p)]

\* Path.joinpath(name)
JoinPath(p, name) == Append(p, name)

\* f"{basename}.zip"
ZipName(name) ==
  CASE name = "lib" -> "lib.zip"
    [] name = "b"   -> "b.zip"
    [] OTHER        -> "x.zip"

\* p is q or an ancestor of q
IsPrefix(p, q) == Len(p) <= Len(q) /\ SubSeq(q, 1, Len(p)) = p

\* neither path is the other or contains the other
Disjoint(p, q) == ~IsPrefix(p, q) /\ ~IsPrefix(q, p)

(***************************************************************************)
(* The file system: a function from the paths that exist to their node.    *)
(***************************************************************************)
DirNode == [kind |-> "dir", data |-> <<>>]
FileNode(bytes) == [kind |-> "file", data |-> bytes]

Exists(f, p) == p \in DOMAIN f
IsDir(f, p) == Exists(f, p) /\ f[p].kind = "dir"
IsFile(f, p) == Exists(f, p) /\ f[p].kind = "file"

\* the proper ancestors of p, and p itself
Prefixes(p) == {SubSeq(p, 1, n) : n \in 1..Len(p)}

\* what lies below directory d, by path relative to d
Tree(f, d) ==
  {<<SubSeq(q, Len(d) + 1, Len(q)), f[q]>> :
     q \in {r \in DOMAIN f : IsPrefix(d, r) /\ r # d}}

\* the part of the file system at and below p
Under(f, p) == [q \in {r \in DOMAIN f : IsPrefix(p, r)} |-> f[q]]

\* the entries directly inside directory d
Entries(f, d) == {q \in DOMAIN f : Len(q) = Len(d) + 1 /\ IsPrefix(d, q)}

\* f with the nodes of g written over it
Overlay(f, g) ==
  [q \in DOMAIN f \cup DOMAIN g |-> IF q \in DOMAIN g THEN g[q] ELSE f[q]]

\* Path.remove_if_exists(): the file, or the directory and all below it
RemoveIfExists(f, p) == [q \in {r \in DOMAIN f : ~IsPrefix(p, r)} |-> f[q]]

\* Path.mkdir_if_not_exists() can work: no component of p is a file
CanMkdir(f, p) == \A q \in Prefixes(p) : ~IsFile(f, q)

\* Path.mkdir_if_not_exists(): p and its missing parents become directories
MkdirIfNotExists(f, p) ==
  Overlay(f, [q \in {r \in Prefixes(p) : ~Exists(f, r)} |-> DirNode])

\* Path.read_bytes() can work
CanRead(f, p) == IsFile(f, p)

\* Path.read_bytes()
ReadBytes(f, p) == f[p].data

(***************************************************************************)
(* Bytes: serialisation, archive and digest.                               *)
(***************************************************************************)
NameCode(n) ==
  CASE n = "a"       -> 1
    [] n = "b"       -> 2
    [] n = "c"       -> 3
    [] n = "d"       -> 4
    [] n = "lib"     -> 5
    [] n = "lib.zip" -> 6
    [] n = "m.py"    -> 7
    [] n = "etl.py"  -> 8
    [] n = "junk"    -> 9
    [] OTHER         -> 15

\* a relative path as one number, its components as base-16 digits
RECURSIVE PathNum(_)
PathNum(rel) ==
  IF rel = <<>> THEN 0
  ELSE NameCode(rel[1]) + 16 * PathNum(SubSeq(rel, 2, Len(rel)))

\* the entries of a tree in path order, each as name, kind, length and bytes
RECURSIVE Serialise(_)
Serialise(tree) ==
  IF tree = {} THEN <<>>
  ELSE LET e == CHOOSE x \in tree :
                  \A y \in tree : PathNum(x[1]) <= PathNum(y[1])
       IN <<PathNum(e[1]), IF e[2].kind = "file" THEN 1 ELSE 0,
            Len(e[2].data)>> \o e[2].data \o Serialise(tree \ {e})

\* the bytes of the zip archive of a tree: a signature, then the entries
ZipBytes(tree) == <<80, 75>> \o Serialise(tree)

\* a 16-bit digest of a byte sequence
RECURSIVE Digest(_, _)
Digest(h, bytes) ==
  IF bytes = <<>> THEN h
  ELSE Digest((h * 31 + bytes[1] + 1) % 65536, SubSeq(bytes, 2, Len(bytes)))

\* the digest as a string of four hexadecimal digits
HexDigest(h) ==
  <<(h \div 4096) % 16, (h \div 256) % 16, (h \div 16) % 16, h % 16>>

\* hashes.of_bytes(content)
of_bytes(content) == HexDigest(Digest(7, content))

\* the digest of the files of a tree, by relative path and content
DirDigest(tree) ==
  HexDigest(Digest(11, Serialise({e \in tree : e[2].kind = "file"})))

\* hashes.of_paths(paths=[dir]) on the file system f
of_paths(f, dir) == DirDigest(Tree(f, dir))

\* build_python_lib can work: the source is a directory, the target can be made
CanBuild(f, source, target) == IsDir(f, source) /\ CanMkdir(f, target)

\* build_python_lib(source, target): the source tree copied to the target
build_python_lib(f, source, target) ==
  LET t == Tree(f, source)
      g == MkdirIfNotExists(RemoveIfExists(f, target), target)
  IN Overlay(g, [q \in {target \o e[1] : e \in t} |->
                   (CHOOSE e \in t : target \o e[1] = q)[2]])

\* Path.make_zip_archive(dst, include_dir=False) can work: the directory
\* exists, dst does not (overwrite is off) and the parent of dst exists
CanZip(f, dir, dst) ==
  IsDir(f, dir) /\ ~Exists(f, dst) /\ IsDir(f, SubSeq(dst, 1, Len(dst) - 1))

\* Path.make_zip_archive(dst, include_dir=False): what is below the
\* directory, by path relative to it, archived into the file dst
make_zip_archive(f, dir, dst) ==
  Overlay(f, [q \in {dst} |-> FileNode(ZipBytes(Tree(f, dir)))])

(***************************************************************************)
(* Mappings (dict) and the omitted-argument sentinel.                      *)
(***************************************************************************)
\* func_args.NOTHING; no mapping of the model has the key "sentinel"
NOTHING == [sentinel |-> <<0>>]

EmptyMap == [k \in {} |-> <<>>]

\* dict.update: the pairs of m written over those of d
Update(d, m) ==
  [k \in DOMAIN d \cup DOMAIN m |-> IF k \in DOMAIN m THEN m[k] ELSE d[k]]

\* versioned.api.LATEST_VERSION
LATEST_VERSION == "LATEST"

\* the name of the n-th published version
VersionName(n) ==
  CASE n = 1 -> "1" [] n = 2 -> "2" [] n = 3 -> "3" [] n = 4 -> "4"
    [] OTHER -> "n"

(***************************************************************************)
(* The artifact objects.                                                   *)
(***************************************************************************)
Objs == {"etl", "lib1", "lib2"}
Slots == {1, 2}

VARIABLES
  obj,          \* the artifact objects: object name -> its fields
  fs,           \* the local file system
  store,        \* the artifact store behind the repository
  bootstrapped, \* the backends whose bucket and table were created
  lastPut,      \* per store key, what the latest successful put handed over
  frame         \* per thread, the facade call it is in

vars == <<obj, fs, store, bootstrapped, lastPut, frame>>

\* Repository(aws_region=..., ..., suffix=...): a new object, id its identity
Repository(id, aws_region, s3_bucket, s3_prefix, dynamodb_table_name, suffix) ==
  [id |-> id, aws_region |-> aws_region, s3_bucket |-> s3_bucket,
   s3_prefix |-> s3_prefix, dynamodb_table_name |-> dynamodb_table_name,
   suffix |-> suffix]

\* self with attribute _repo set
SetRepo(self, repo) ==
  [f \in DOMAIN self \cup {"_repo"} |-> IF f = "_repo" THEN repo ELSE self[f]]

\* a flawed variant: one cached repository per configuration
CachedPostInit(self, suffix, id) ==
  SetRepo(self, Repository(0, self.aws_region, self.s3_bucket, self.s3_prefix,
                           self.dynamodb_table_name, ""))

\* Base._common_post_init
_common_post_init(self, suffix, id) ==
  SetRepo(self, Repository(id, self.aws_region, self.s3_bucket, self.s3_prefix,
                           self.dynamodb_table_name, suffix))

\* GlueETLScriptArtifact(...): the dataclass fields, then __post_init__
GlueETLScriptArtifact(id, aws_region, s3_bucket, s3_prefix, dynamodb_table_name, artifact_name, path_glue_etl_script) ==
  _common_post_init(
    [cls |-> "GlueETLScriptArtifact", aws_region |-> aws_region,
     s3_bucket |-> s3_bucket, s3_prefix |-> s3_prefix,
     dynamodb_table_name |-> dynamodb_table_name,
     artifact_name |-> artifact_name,
     path_glue_etl_script |-> Absolute(path_glue_etl_script)],
    ".py", id)

\* GluePythonLibArtifact(...): the dataclass fields, then __post_init__
GluePythonLibArtifact(id, aws_region, s3_bucket, s3_prefix, dynamodb_table_name, artifact_name, dir_glue_python_lib, dir_glue_build) ==
  _common_post_init(
    [cls |-> "GluePythonLibArtifact", aws_region |-> aws_region,
     s3_bucket |-> s3_bucket, s3_prefix |-> s3_prefix,
     dynamodb_table_name |-> dynamodb_table_name,
     artifact_name |-> artifact_name,
     dir_glue_python_lib |-> Absolute(dir_glue_python_lib),
     dir_glue_build |-> Absolute(dir_glue_build)],
    ".zip", id)

IsETL(o) == obj[o].cls = "GlueETLScriptArtifact"
IsLib(o) == obj[o].cls = "GluePythonLibArtifact"

\* Base.repo
repo(self) == self._repo

\* a flawed variant: the library is built in the working directory, whatever
\* the build directory of the object
BuildDirInCwd(self) == JoinPath(Cwd, Basename(self.dir_glue_python_lib))

\* GluePythonLibArtifact.dir_glue_python_lib_build
dir_glue_python_lib_build(self) ==
  JoinPath(self.dir_glue_build, Basename(self.dir_glue_python_lib))

\* GluePythonLibArtifact.path_glue_python_lib_build_zip
path_glue_python_lib_build_zip(self) ==
  JoinPath(self.dir_glue_build, ZipName(Basename(self.dir_glue_python_lib)))

(***************************************************************************)
(* The repository and its store (versioned.api.Repository).                *)
(***************************************************************************)
\* the bucket and table a repository works on
Backend(r) == <<r.s3_bucket, r.dynamodb_table_name>>

\* where a repository keeps the artifact of a name
StoreKey(r, name) ==
  <<r.s3_bucket, r.s3_prefix, r.dynamodb_table_name, r.suffix, name>>

\* the Artifact a repository call returns
Artifact(name, version, content, content_type, metadata, tags) ==
  [name |-> name, version |-> version, content |-> content,
   content_type |-> content_type, metadata |-> metadata, tags |-> tags]

\* Repository.put_artifact: the LATEST of the name is replaced
RepoPutArtifact(st, r, name, content, content_type, metadata, tags) ==
  LET key == StoreKey(r, name)
      art == Artifact(name, LATEST_VERSION, content, content_type,
                      metadata, tags)
  IN [k \in DOMAIN st \cup {key} |->
        IF k = key
        THEN [latest |-> art,
              versions |-> IF key \in DOMAIN st THEN st[key].versions
                           ELSE <<>>]
        ELSE st[k]]

\* the version Repository.publish_artifact_version creates from LATEST
RepoNewVersion(st, r, name) ==
  LET e == st[StoreKey(r, name)]
  IN [e.latest EXCEPT !.version = VersionName(Len(e.versions) + 1)]

\* Repository.publish_artifact_version: LATEST is copied to a new version
RepoPublishArtifactVersion(st, r, name) ==
  [st EXCEPT ![StoreKey(r, name)].versions =
     Append(@, RepoNewVersion(st, r, name))]

\* Repository.get_artifact_s3path
RepoGetArtifactS3path(r, name, version) ==
  [bucket |-> r.s3_bucket, key |-> <<r.s3_prefix, name, version, r.suffix>>]

(***************************************************************************)
(* Facade calls.  A frame is one call of a facade method by one thread:    *)
(* its arguments, its locals, the repository calls it has made (calls),    *)
(* the exception raised in it (raised) and how it ended (result).  The     *)
(* fields trace, built, zipped, hashed, src0, dir0 and peers are history.     *)
(***************************************************************************)
NoResult == [status |-> "none", error |-> "", value |-> <<>>]
Returned(v) == [status |-> "ok", error |-> "", value |-> <<v>>]
Raised(e) == [status |-> "err", error |-> e, value |-> <<>>]

IdleFrame ==
  [pc |-> "idle", op |-> "none", self |-> "none",
   metadata |-> NOTHING, tags |-> NOTHING, version |-> <<>>,
   content |-> <<>>, sha |-> <<>>, final_metadata |-> EmptyMap,
   calls |-> <<>>, raised |-> <<>>, result |-> NoResult,
   trace |-> <<>>, built |-> <<>>, zipped |-> <<>>, hashed |-> <<>>,
   src0 |-> <<>>, dir0 |-> <<>>, peers |-> {}]

\* one call of a repository method, with the arguments it received
RepoCall(method, r, name, version, content, content_type, metadata, tags, units) ==
  [method |-> method, repo |-> r, name |-> name, version |-> version,
   content |-> content, content_type |-> content_type,
   metadata |-> metadata, tags |-> tags, units |-> units]

\* an exception raised at a step leaves the method: nothing catches it
Throw(fr, e) ==
  [fr EXCEPT !.raised = <<[at |-> fr.pc, error |-> e]>>,
             !.result = Raised(e), !.trace = Append(@, fr.pc),
             !.pc = "done"]

\* the step at fr.pc is done and control moves on to the step next
Advance(fr, next) == [fr EXCEPT !.trace = Append(@, fr.pc), !.pc = next]

\* the errors a local file operation may end in
IOErrors(can) == IF can THEN {"OSError"} ELSE {"FileNotFoundError"}

\* the errors a repository call may end in
RepoErrors == {"ClientError"}

Self(c) == obj[frame[c].self]

At(c, cls, pc) ==
  /\ frame[c].pc = pc
  /\ frame[c].op = "put_artifact"
  /\ Self(c).cls = cls

(***************************************************************************)
(* Base: bootstrap, get_artifact_s3path, publish_artifact_version.         *)
(* Each is one repository call.                                            *)
(***************************************************************************)
\* Base.bootstrap
bootstrap(c, o, wcu, rcu) ==
  /\ frame[c].pc = "idle"
  /\ LET r == repo(obj[o])
         fr == [IdleFrame EXCEPT
                  !.pc = "call", !.op = "bootstrap", !.self = o,
                  
                  !.calls = <<RepoCall("bootstrap", r, "", "", <<>>, "",
                                       NOTHING, NOTHING, <<wcu, rcu>>)>>]
     IN \/ /\ bootstrapped' = bootstrapped \cup {Backend(r)}
           /\ frame' = [frame EXCEPT ![c] =
                          [Advance(fr, "done") EXCEPT
                             !.result = Returned(<<>>)]]
        \/ /\ \E e \in RepoErrors :
                frame' = [frame EXCEPT ![c] = Throw(fr, e)]
           /\ UNCHANGED bootstrapped
  /\ UNCHANGED <<obj, fs, store, lastPut>>

\* version: str = LATEST_VERSION; given is <<>> or the one version passed
DefaultVersion(given) == IF given = <<>> THEN LATEST_VERSION ELSE given[1]

\* Base.get_artifact_s3path
get_artifact_s3path(c, o, given) ==
  /\ frame[c].pc = "idle"
  /\ LET r == repo(obj[o])
         name == obj[o].artifact_name
         version == DefaultVersion(given)
         fr == [IdleFrame EXCEPT
                  !.pc = "call", !.op = "get_artifact_s3path", !.self = o,
                  !.version = given,
                  !.calls = <<RepoCall("get_artifact_s3path", r, name,
                                       version, <<>>, "", NOTHING, NOTHING,
                                       <<>>)>>]
     IN \/ frame' = [frame EXCEPT ![c] =
                       [Advance(fr, "done") EXCEPT
                          !.result =
                            Returned(RepoGetArtifactS3path(r, name, version))]]
        \/ \E e \in RepoErrors : frame' = [frame EXCEPT ![c] = Throw(fr, e)]
  /\ UNCHANGED <<obj, fs, store, bootstrapped, lastPut>>

\* a flawed variant: the name published is not this object's
publish_other_name(c, o) ==
  /\ frame[c].pc = "idle"
  /\ \E p \in Objs :
       LET r == repo(obj[o])
           name == obj[p].artifact_name
           fr == [IdleFrame EXCEPT
                    !.pc = "call", !.op = "publish_artifact_version",
                    !.self = o,
                    !.calls = <<RepoCall("publish_artifact_version", r, name,
                                         "", <<>>, "", NOTHING, NOTHING,
                                         <<>>)>>]
       IN /\ StoreKey(r, name) \in DOMAIN store
          /\ Len(store[StoreKey(r, name)].versions) < MaxVersions
          /\ store' = RepoPublishArtifactVersion(store, r, name)
          /\ frame' = [frame EXCEPT ![c] =
                         [Advance(fr, "done") EXCEPT
                            !.result =
                              Returned(RepoNewVersion(store, r, name))]]
  /\ UNCHANGED <<obj, fs, bootstrapped, lastPut>>

\* Base.publish_artifact_version
publish_artifact_version(c, o) ==
  /\ frame[c].pc = "idle"
  /\ LET r == repo(obj[o])
         name == obj[o].artifact_name
         fr == [IdleFrame EXCEPT
                  !.pc = "call", !.op = "publish_artifact_version",
                  !.self = o,
                  !.calls = <<RepoCall("publish_artifact_version", r, name,
                                       "", <<>>, "", NOTHING, NOTHING,
                                       <<>>)>>]
     IN \/ /\ StoreKey(r, name) \in DOMAIN store
           /\ Len(store[StoreKey(r, name)].versions) < MaxVersions
           /\ store' = RepoPublishArtifactVersion(store, r, name)
           /\ frame' = [frame EXCEPT ![c] =
                          [Advance(fr, "done") EXCEPT
                             !.result =
                               Returned(RepoNewVersion(store, r, name))]]
        \/ /\ \E e \in IF StoreKey(r, name) \in DOMAIN store
                       THEN RepoErrors ELSE {"ArtifactNotFoundError"} :
                frame' = [frame EXCEPT ![c] = Throw(fr, e)]
           /\ UNCHANGED store
  /\ UNCHANGED <<obj, fs, bootstrapped, lastPut>>

\* the method returns or the exception leaves it: the thread is free again
Return(c) ==
  /\ frame[c].pc = "done"
  /\ frame' = [frame EXCEPT ![c] = IdleFrame]
  /\ UNCHANGED <<obj, fs, store, bootstrapped, lastPut>>

(***************************************************************************)
(* put_artifact of both classes, one action per statement.                 *)
(***************************************************************************)
HashKey(cls) ==
  IF cls = "GlueETLScriptArtifact" THEN "glue_etl_script_sha256"
  ELSE "glue_python_lib_sha256"

\* a flawed variant: the hash entry is written over the caller's metadata
FinalMetadataHashLast(key, sha, metadata) ==
  IF metadata # NOTHING THEN Update(metadata, [k \in {key} |-> sha])
  ELSE [k \in {key} |-> sha]

\* final_metadata = {key: sha}; if metadata is not NOTHING: update(metadata)
FinalMetadata(key, sha, metadata) ==
  IF metadata # NOTHING THEN Update([k \in {key} |-> sha], metadata)
  ELSE [k \in {key} |-> sha]

\* put_artifact(metadata, tags) is called on object o
put_artifact(c, o, metadata, tags) ==
  /\ frame[c].pc = "idle"
  /\ frame' = [frame EXCEPT ![c] =
       [IdleFrame EXCEPT
          !.pc = IF IsETL(o) THEN "read_bytes" ELSE "remove",
          !.op = "put_artifact", !.self = o,
          !.metadata = metadata, !.tags = tags,
          !.src0 = IF IsETL(o) THEN <<>>
                   ELSE <<Under(fs, obj[o].dir_glue_python_lib)>>,
          !.dir0 = IF IsETL(o) THEN <<>>
                   ELSE <<Entries(fs, obj[o].dir_glue_build)>>,
          !.peers = {d \in Slots : frame[d].pc \notin {"idle", "done"}}]]
  /\ UNCHANGED <<obj, fs, store, bootstrapped, lastPut>>

\* content = self.path_glue_etl_script.read_bytes()
ETLReadBytes(c) ==
  /\ At(c, "GlueETLScriptArtifact", "read_bytes")
  /\ LET path == Self(c).path_glue_etl_script
     IN \/ /\ CanRead(fs, path)
           /\ frame' = [frame EXCEPT ![c] =
                [Advance(@, "hash") EXCEPT !.content = ReadBytes(fs, path)]]
        \/ \E e \in IOErrors(CanRead(fs, path)) :
             frame' = [frame EXCEPT ![c] = Throw(@, e)]
  /\ UNCHANGED <<obj, fs, store, bootstrapped, lastPut>>

\* glue_etl_script_sha256 = hashes.of_bytes(content); final_metadata = ...
ETLHash(c) ==
  /\ At(c, "GlueETLScriptArtifact", "hash")
  /\ LET sha == of_bytes(frame[c].content)
     IN frame' = [frame EXCEPT ![c] =
          [Advance(@, "upload") EXCEPT
             !.sha = sha,
             !.final_metadata =
               FinalMetadata(HashKey(Self(c).cls), sha, frame[c].metadata)]]
  /\ UNCHANGED <<obj, fs, store, bootstrapped, lastPut>>

\* a flawed variant: a failed upload is tried a second time
UploadRetry(c, content_type) ==
  /\ frame[c].pc = "upload"
  /\ frame[c].op = "put_artifact"
  /\ LET fr == frame[c]
         r == repo(Self(c))
         name == Self(c).artifact_name
         call == RepoCall("put_artifact", r, name, "", fr.content,
                          content_type, fr.final_metadata, fr.tags, <<>>)
         first == [fr EXCEPT !.calls = Append(@, call)]
         second == [first EXCEPT !.calls = Append(@, call)]
     IN \/ /\ store' = RepoPutArtifact(store, r, name, fr.content,
                                      content_type, fr.final_metadata, fr.tags)
           /\ lastPut' = [k \in DOMAIN lastPut \cup {StoreKey(r, name)} |->
                            IF k = StoreKey(r, name)
                            THEN [content |-> fr.content,
                                  metadata |-> fr.final_metadata]
                            ELSE lastPut[k]]
           /\ frame' = [frame EXCEPT ![c] =
                [Advance(first, "done") EXCEPT
                   !.result = Returned(store'[StoreKey(r, name)].latest)]]
        \/ /\ \E e \in RepoErrors :
                frame' = [frame EXCEPT ![c] = Throw(second, e)]
           /\ UNCHANGED <<store, lastPut>>
  /\ UNCHANGED <<obj, fs, bootstrapped>>

\* return self.repo.put_artifact(name=self.artifact_name, content=content,
\*   content_type=content_type, metadata=final_metadata, tags=tags)
Upload(c, content_type) ==
  /\ frame[c].pc = "upload"
  /\ frame[c].op = "put_artifact"
  /\ LET r == repo(Self(c))
         name == Self(c).artifact_name
         fr == [frame[c] EXCEPT !.calls =
                  Append(@, RepoCall("put_artifact", r, name, "",
                                     frame[c].content, content_type,
                                     frame[c].final_metadata, frame[c].tags,
                                     <<>>))]
     IN \/ /\ store' = RepoPutArtifact(store, r, name, fr.content,
                                      content_type, fr.final_metadata, fr.tags)
           /\ lastPut' = [k \in DOMAIN lastPut \cup {StoreKey(r, name)} |->
                            IF k = StoreKey(r, name)
                            THEN [content |-> fr.content,
                                  metadata |-> fr.final_metadata]
                            ELSE lastPut[k]]
           /\ frame' = [frame EXCEPT ![c] =
                [Advance(fr, "done") EXCEPT
                   !.result = Returned(store'[StoreKey(r, name)].latest)]]
        \/ /\ \E e \in RepoErrors :
                frame' = [frame EXCEPT ![c] = Throw(fr, e)]
           /\ UNCHANGED <<store, lastPut>>
  /\ UNCHANGED <<obj, fs, bootstrapped>>

\* GlueETLScriptArtifact.put_artifact: return self.repo.put_artifact(...)
ETLUpload(c) ==
  /\ At(c, "GlueETLScriptArtifact", "upload")
  /\ Upload(c, "text/plain")

\* a flawed variant: only the zip of the last build is removed
LibRemoveZipOnly(c) ==
  /\ At(c, "GluePythonLibArtifact", "remove")
  /\ fs' = RemoveIfExists(fs, path_glue_python_lib_build_zip(Self(c)))
  /\ frame' = [frame EXCEPT ![c] = Advance(@, "mkdir")]
  /\ UNCHANGED <<obj, store, bootstrapped, lastPut>>

\* self.dir_glue_build.remove_if_exists()
LibRemove(c) ==
  /\ At(c, "GluePythonLibArtifact", "remove")
  /\ \/ /\ fs' = RemoveIfExists(fs, Self(c).dir_glue_build)
        /\ frame' = [frame EXCEPT ![c] = Advance(@, "mkdir")]
     \/ /\ \E e \in IOErrors(TRUE) : frame' = [frame EXCEPT ![c] = Throw(@, e)]
        /\ UNCHANGED fs
  /\ UNCHANGED <<obj, store, bootstrapped, lastPut>>

\* a flawed variant: the object's build directory is rebound to the target
LibMkdirRebind(c) ==
  /\ At(c, "GluePythonLibArtifact", "mkdir")
  /\ CanMkdir(fs, Self(c).dir_glue_build)
  /\ fs' = MkdirIfNotExists(fs, Self(c).dir_glue_build)
  /\ obj' = [obj EXCEPT ![frame[c].self].dir_glue_build =
               dir_glue_python_lib_build(Self(c))]
  /\ frame' = [frame EXCEPT ![c] = Advance(@, "build")]
  /\ UNCHANGED <<store, bootstrapped, lastPut>>

\* self.dir_glue_build.mkdir_if_not_exists()
LibMkdir(c) ==
  /\ At(c, "GluePythonLibArtifact", "mkdir")
  /\ LET dir == Self(c).dir_glue_build
     IN \/ /\ CanMkdir(fs, dir)
           /\ fs' = MkdirIfNotExists(fs, dir)
           /\ frame' = [frame EXCEPT ![c] = Advance(@, "build")]
        \/ /\ \E e \in IOErrors(CanMkdir(fs, dir)) :
                frame' = [frame EXCEPT ![c] = Throw(@, e)]
           /\ UNCHANGED fs
  /\ UNCHANGED <<obj, store, bootstrapped, lastPut>>

\* a flawed variant: the source tree is moved to the target, not copied
LibBuildMove(c) ==
  /\ At(c, "GluePythonLibArtifact", "build")
  /\ LET source == Self(c).dir_glue_python_lib
         target == dir_glue_python_lib_build(Self(c))
     IN /\ CanBuild(fs, source, target)
        /\ fs' = RemoveIfExists(build_python_lib(fs, source, target), source)
        /\ frame' = [frame EXCEPT ![c] =
             [Advance(@, "zip") EXCEPT !.built = <<Tree(fs', target)>>]]
  /\ UNCHANGED <<obj, store, bootstrapped, lastPut>>

\* build_python_lib(dir_python_lib_source=..., dir_python_lib_target=...)
LibBuild(c) ==
  /\ At(c, "GluePythonLibArtifact", "build")
  /\ LET source == Self(c).dir_glue_python_lib
         target == dir_glue_python_lib_build(Self(c))
     IN \/ /\ CanBuild(fs, source, target)
           /\ fs' = build_python_lib(fs, source, target)
           /\ frame' = [frame EXCEPT ![c] =
                [Advance(@, "zip") EXCEPT !.built = <<Tree(fs', target)>>]]
        \/ /\ \E e \in IOErrors(CanBuild(fs, source, target)) :
                frame' = [frame EXCEPT ![c] = Throw(@, e)]
           /\ UNCHANGED fs
  /\ UNCHANGED <<obj, store, bootstrapped, lastPut>>

\* a flawed variant: the source directory is zipped, not the built one
LibZipSource(c) ==
  /\ At(c, "GluePythonLibArtifact", "zip")
  /\ LET dir == Self(c).dir_glue_python_lib
         dst == path_glue_python_lib_build_zip(Self(c))
     IN /\ CanZip(fs, dir, dst)
        /\ fs' = make_zip_archive(fs, dir, dst)
        /\ frame' = [frame EXCEPT ![c] =
             [Advance(@, "hash") EXCEPT !.zipped = <<Tree(fs, dir)>>]]
  /\ UNCHANGED <<obj, store, bootstrapped, lastPut>>

\* self.dir_glue_python_lib_build.make_zip_archive(dst=..., include_dir=False)
LibZip(c) ==
  /\ At(c, "GluePythonLibArtifact", "zip")
  /\ LET dir == dir_glue_python_lib_build(Self(c))
         dst == path_glue_python_lib_build_zip(Self(c))
     IN \/ /\ CanZip(fs, dir, dst)
           /\ fs' = make_zip_archive(fs, dir, dst)
           /\ frame' = [frame EXCEPT ![c] =
                [Advance(@, "hash") EXCEPT !.zipped = <<Tree(fs, dir)>>]]
        \/ /\ \E e \in IOErrors(CanZip(fs, dir, dst)) :
                frame' = [frame EXCEPT ![c] = Throw(@, e)]
           /\ UNCHANGED fs
  /\ UNCHANGED <<obj, store, bootstrapped, lastPut>>

\* glue_python_lib_sha256 = hashes.of_paths(paths=[...]); final_metadata = ...
LibHash(c) ==
  /\ At(c, "GluePythonLibArtifact", "hash")
  /\ LET dir == dir_glue_python_lib_build(Self(c))
         sha == of_paths(fs, dir)
     IN \/ /\ IsDir(fs, dir)
           /\ frame' = [frame EXCEPT ![c] =
                [Advance(@, "read_bytes") EXCEPT
                   !.sha = sha, !.hashed = <<Tree(fs, dir)>>,
                   !.final_metadata =
                     FinalMetadata(HashKey(Self(c).cls), sha,
                                   frame[c].metadata)]]
        \/ \E e \in IOErrors(IsDir(fs, dir)) :
             frame' = [frame EXCEPT ![c] = Throw(@, e)]
  /\ UNCHANGED <<obj, fs, store, bootstrapped, lastPut>>

\* content=self.path_glue_python_lib_build_zip.read_bytes()
LibReadBytes(c) ==
  /\ At(c, "GluePythonLibArtifact", "read_bytes")
  /\ LET path == path_glue_python_lib_build_zip(Self(c))
     IN \/ /\ CanRead(fs, path)
           /\ frame' = [frame EXCEPT ![c] =
                [Advance(@, "upload") EXCEPT !.content = ReadBytes(fs, path)]]
        \/ \E e \in IOErrors(CanRead(fs, path)) :
             frame' = [frame EXCEPT ![c] = Throw(@, e)]
  /\ UNCHANGED <<obj, fs, store, bootstrapped, lastPut>>

\* GluePythonLibArtifact.put_artifact: return self.repo.put_artifact(...)
LibUpload(c) ==
  /\ At(c, "GluePythonLibArtifact", "upload")
  /\ Upload(c, "application/zip")

(***************************************************************************)
(* The environment: other programs write files between calls.              *)
(***************************************************************************)
\* a file is written (created or replaced) in an existing directory
WriteFile(path, bytes) ==
  /\ \A c \in Slots : frame[c].pc = "idle"
  /\ IsDir(fs, SubSeq(path, 1, Len(path) - 1))
  /\ ~IsDir(fs, path)
  /\ fs' = Overlay(fs, [q \in {path} |-> FileNode(bytes)])
  /\ UNCHANGED <<obj, store, bootstrapped, lastPut, frame>>

(***************************************************************************)
(* Initial states: the files on disk and the constructed objects.          *)
(***************************************************************************)
InitFs ==
  [q \in {<<"a">>, <<"a", "lib">>, <<"a", "lib", "m.py">>, <<"a", "etl.py">>,
          <<"c">>, <<"c", "lib">>, <<"c", "lib", "m.py">>} |->
     CASE q = <<"a", "lib", "m.py">> -> FileNode(<<1>>)
       [] q = <<"c", "lib", "m.py">> -> FileNode(<<2>>)
       [] q = <<"a", "etl.py">>      -> FileNode(<<3>>)
       [] OTHER                      -> DirNode]

\* one script artifact and two library artifacts, constructed from arguments
\* drawn from the given sets
InitWith(etlPrefixes, lib1Builds, lib2Names, lib2Sources, lib2Builds) ==
  /\ \E prefix \in etlPrefixes, build1 \in lib1Builds, name2 \in lib2Names,
        source2 \in lib2Sources, build2 \in lib2Builds :
       obj = [o \in Objs |->
                CASE o = "etl" ->
                       GlueETLScriptArtifact(1, "us-east-1", "bk", prefix,
                                             "tb", "n1", RelArg(<<"etl.py">>))
                  [] o = "lib1" ->
                       GluePythonLibArtifact(2, "us-east-1", "bk", "p1", "tb",
                                             "n2", RelArg(<<"lib">>), build1)
                  [] OTHER ->
                       GluePythonLibArtifact(3, "us-east-1", "bk", "p1", "tb",
                                             name2, source2, build2)]
  /\ fs = InitFs
  /\ store = <<>>
  /\ bootstrapped = {}
  /\ lastPut = <<>>
  /\ frame = [c \in Slots |-> IdleFrame]

\* the metadata and tags arguments of put_artifact
MetaArgs ==
  {NOTHING, EmptyMap, [k \in {"k"} |-> <<1>>],
   [k \in {"k", "glue_etl_script_sha256", "glue_python_lib_sha256"} |-> <<2>>]}
TagArgs == {NOTHING, [k \in {"t"} |-> <<1>>]}

\* the steps of the put_artifact call of thread c
ETLSteps(c) == ETLReadBytes(c) \/ ETLHash(c) \/ ETLUpload(c)

LibSteps(c) ==
  \/ LibRemove(c) \/ LibMkdir(c) \/ LibBuild(c) \/ LibZip(c)
  \/ LibHash(c) \/ LibReadBytes(c) \/ LibUpload(c)

(***************************************************************************)
(* Spec: one thread calls every method of the three objects, one call      *)
(* after the other.                                                        *)
(***************************************************************************)
Init ==
  InitWith({"p1", "p2"}, {AbsArg(<<"b">>)}, {"n2", "n3"},
           {AbsArg(<<"c", "lib">>)}, {AbsArg(<<"b">>)})

Next ==
  \/ \E o \in Objs, units \in {<<>>, <<5>>} : bootstrap(1, o, units, units)
  \/ \E o \in Objs, given \in {<<>>, <<"1">>} : get_artifact_s3path(1, o, given)
  \/ \E o \in Objs : publish_artifact_version(1, o)
  \/ \E o \in Objs : put_artifact(1, o, NOTHING, NOTHING)
  \/ ETLSteps(1)
  \/ LibSteps(1)
  \/ Return(1)

Spec == Init /\ [][Next]_vars

(***************************************************************************)
(* SpecMeta: one thread puts the script and a library with every kind of   *)
(* metadata and tags argument, while the script changes between calls.     *)
(***************************************************************************)
InitMeta ==
  InitWith({"p1"}, {AbsArg(<<"b">>)}, {"n3"}, {AbsArg(<<"c", "lib">>)},
           {AbsArg(<<"b">>)})

NextMeta ==
  \/ \E o \in {"etl", "lib1"}, metadata \in MetaArgs, tags \in TagArgs :
       put_artifact(1, o, metadata, tags)
  \/ ETLSteps(1)
  \/ LibSteps(1)
  \/ Return(1)
  \/ \E bytes \in {<<3>>, <<4>>} : WriteFile(<<"a", "etl.py">>, bytes)

SpecMeta == InitMeta /\ [][NextMeta]_vars

(***************************************************************************)
(* SpecPaths: one thread puts libraries whose build directory lies beside, *)
(* above, at or inside the source directory, while other programs leave    *)
(* files in the build directory and edit the source between calls.         *)
(***************************************************************************)
InitPaths ==
  InitWith({"p1"},
           {AbsArg(<<"b">>), AbsArg(<<"a">>), AbsArg(<<"a", "lib">>),
            RelArg(<<"lib", "b">>), RelArg(<<"b">>)},
           {"n3"}, {AbsArg(<<"c", "lib">>)}, {AbsArg(<<"b">>), AbsArg(<<"d">>)})

NextPaths ==
  \/ \E o \in {"lib1", "lib2"} : put_artifact(1, o, NOTHING, NOTHING)
  \/ LibSteps(1)
  \/ Return(1)
  \/ \E o \in {"lib1", "lib2"} :
       WriteFile(JoinPath(obj[o].dir_glue_build, "junk"), <<9>>)
  \/ \E bytes \in {<<1>>, <<5>>} : WriteFile(<<"a", "lib", "m.py">>, bytes)

SpecPaths == InitPaths /\ [][NextPaths]_vars

(***************************************************************************)
(* SpecConc: two threads, one per library object, whose put_artifact calls *)
(* overlap in time and interleave statement by statement.                  *)
(***************************************************************************)
InitConc ==
  InitWith({"p1"}, {AbsArg(<<"b">>)}, {"n3"},
           {RelArg(<<"lib">>), AbsArg(<<"c", "lib">>)},
           {AbsArg(<<"b">>), AbsArg(<<"d">>)})

NextConc ==
  \/ put_artifact(1, "lib1", NOTHING, NOTHING)
  \/ put_artifact(2, "lib2", NOTHING, NOTHING)
  \/ \E c \in Slots : LibSteps(c)
  \/ \E c \in Slots : Return(c)

SpecConc == InitConc /\ [][NextConc]_vars

(***************************************************************************)
(* Properties.                                                             *)
(***************************************************************************)
\* the put_artifact calls in progress or just ended
PutFrames == {c \in Slots : frame[c].op = "put_artifact"}
LibFrames == {c \in PutFrames : IsLib(frame[c].self)}

\* the repository calls thread c has made in its current facade call
CallsOf(c) == {frame[c].calls[i] : i \in 1..Len(frame[c].calls)}

\* the hash computed in the put_artifact call of thread c: of the bytes passed
\* as content (script), of the directory built in this call (library)
ComputedHash(c) ==
  IF IsETL(frame[c].self) THEN of_bytes(frame[c].content)
  ELSE DirDigest(frame[c].built[1])

\* C1: the metadata handed to repo.put_artifact always maps the class's hash
\* key to the content hash computed in that call, whatever metadata the
\* caller passed.
C1_HashInMetadata ==
  \A c \in PutFrames : \A call \in CallsOf(c) :
    /\ HashKey(Self(c).cls) \in DOMAIN call.metadata
    /\ call.metadata[HashKey(Self(c).cls)] = ComputedHash(c)

\* the step a raised exception came from is a repository call
AtRepoCall(fr) == fr.raised[1].at \in {"upload", "call"}

\* how a facade call stands with respect to the exception raised in it
C2_Frames ==
  \A c \in Slots :
    LET fr == frame[c]
    IN /\ fr.raised # <<>> =>
            /\ fr.pc = "done"
            /\ fr.result = Raised(fr.raised[1].error)
            /\ ~AtRepoCall(fr) => fr.calls = <<>>
            /\ AtRepoCall(fr) => Len(fr.calls) = 1
       /\ fr.result.status = "err" => fr.raised # <<>>
       /\ Len(fr.calls) <= 1

\* the store changes only in a step that makes a repository call and does
\* not raise
C2_StoreKept ==
  store' # store =>
    \E c \in Slots :
      /\ Len(frame'[c].calls) = Len(frame[c].calls) + 1
      /\ frame'[c].raised = <<>>

\* C2: an exception of a local step ends put_artifact in that same error with
\* no repository call made and the store as it was; an exception of a
\* repository call ends the facade method in that same error after exactly
\* one call of the repository method; no exception is swallowed.
C2_ErrorsPropagate == []C2_Frames /\ [][C2_StoreKept]_vars

\* C2 witness: a library put_artifact ended in the error of a local step
C2_Witness ==
  /\ frame[1].pc = "done"
  /\ frame[1].op = "put_artifact"
  /\ frame[1].raised # <<>>
  /\ frame[1].raised[1].at = "build"
  /\ store # <<>>

\* the four values a repository is configured with
SameConfig(o, p) ==
  /\ obj[o].aws_region = obj[p].aws_region
  /\ obj[o].s3_bucket = obj[p].s3_bucket
  /\ obj[o].s3_prefix = obj[p].s3_prefix
  /\ obj[o].dynamodb_table_name = obj[p].dynamodb_table_name

\* C3 as stated: a script artifact and a library artifact constructed with
\* the same four values operate through the same Repository object.
C3_SharedRepository ==
  \A e \in Objs, l \in Objs :
    IsETL(e) /\ IsLib(l) /\ SameConfig(e, l) => repo(obj[e]) = repo(obj[l])

\* the repository of an object is its own, made from its own fields
OwnRepository ==
  \A o \in Objs :
    LET r == repo(obj[o])
    IN /\ r.aws_region = obj[o].aws_region
       /\ r.s3_bucket = obj[o].s3_bucket
       /\ r.s3_prefix = obj[o].s3_prefix
       /\ r.dynamodb_table_name = obj[o].dynamodb_table_name
       /\ r.suffix = IF IsETL(o) THEN ".py" ELSE ".zip"
       /\ \A p \in Objs \ {o} : repo(obj[p]) # r

\* C3 (amended): every artifact instance has a Repository object of its own,
\* configured with the instance's aws_region, s3_bucket, s3_prefix and
\* dynamodb_table_name and its class's suffix, so a script artifact and a
\* library artifact with the same four values work through two different
\* Repository objects; and every instance keeps its Repository object
\* through any sequence of calls.
C3_OwnRepository ==
  /\ []OwnRepository
  /\ [][\A o \in Objs : repo(obj'[o]) = repo(obj[o])]_vars

\* C3 witness: a script and a library artifact with the same four values,
\* after a call on one of them.
C3_Witness ==
  /\ SameConfig("etl", "lib1")
  /\ frame[1].pc = "done"
  /\ frame[1].self = "lib1"
  /\ store # <<>>

\* the paths derived from the fields of a library artifact
DerivedPaths(self) ==
  IF self.cls = "GluePythonLibArtifact"
  THEN <<dir_glue_python_lib_build(self), path_glue_python_lib_build_zip(self)>>
  ELSE <<>>

\* C4: no step of any bootstrap, put_artifact, publish_artifact_version or
\* get_artifact_s3path call, successful or failed, changes a field of an
\* artifact object or a path derived from its fields.
C4_ObjectsUnchanged ==
  [][\A o \in Objs :
       /\ obj'[o] = obj[o]
       /\ DerivedPaths(obj'[o]) = DerivedPaths(obj[o])]_vars

\* C4 witness: a failed put_artifact after an earlier successful one
C4_Witness ==
  /\ frame[1].pc = "done"
  /\ frame[1].op = "put_artifact"
  /\ frame[1].result.status = "err"
  /\ IsLib(frame[1].self)
  /\ StoreKey(repo(Self(1)), Self(1).artifact_name) \in DOMAIN store

\* the store key of the artifact name of the object thread c works on
KeyOf(c) == StoreKey(repo(Self(c)), Self(c).artifact_name)

\* what a finished publish_artifact_version or get_artifact_s3path call did
C5_Calls ==
  \A c \in Slots :
    LET fr == frame[c]
    IN /\ fr.pc = "done" /\ fr.op = "publish_artifact_version" =>
            /\ Len(fr.calls) = 1
            /\ fr.calls[1].method = "publish_artifact_version"
            /\ fr.calls[1].repo = repo(Self(c))
            /\ fr.calls[1].name = Self(c).artifact_name
            /\ fr.result.status = "ok" =>
                 LET v == fr.result.value[1]
                 IN /\ v = store[KeyOf(c)].versions[Len(store[KeyOf(c)].versions)]
                    /\ v.version # LATEST_VERSION
                    /\ v.content = lastPut[KeyOf(c)].content
                    /\ v.metadata = lastPut[KeyOf(c)].metadata
       /\ fr.pc = "done" /\ fr.op = "get_artifact_s3path" =>
            /\ Len(fr.calls) = 1
            /\ fr.calls[1].method = "get_artifact_s3path"
            /\ fr.calls[1].repo = repo(Self(c))
            /\ fr.calls[1].name = Self(c).artifact_name
            /\ fr.calls[1].version =
                 IF fr.version = <<>> THEN "LATEST" ELSE fr.version[1]

\* a published version is never changed or removed by a step
C5_Immutable ==
  \A k \in DOMAIN store :
    /\ k \in DOMAIN store'
    /\ \A i \in 1..Len(store[k].versions) :
         /\ i <= Len(store'[k].versions)
         /\ store'[k].versions[i] = store[k].versions[i]

\* C5: each publish_artifact_version calls repo.publish_artifact_version
\* exactly once with this object's artifact_name; the version created holds
\* the content and metadata of the most recent put_artifact on that name; no
\* later call changes a published version; get_artifact_s3path queries this
\* object's artifact_name, with version LATEST when none is given.
C5_PublishLatest == []C5_Calls /\ [][C5_Immutable]_vars

\* C5 witness: a second version was published after a put that followed the
\* first version
C5_Witness ==
  /\ frame[1].pc = "done"
  /\ frame[1].op = "publish_artifact_version"
  /\ frame[1].result.status = "ok"
  /\ Len(store[KeyOf(1)].versions) = 2
  /\ store[KeyOf(1)].versions[1].content # store[KeyOf(1)].versions[2].content

\* the reset of the build directory of thread c's call is over
ResetDone(fr) ==
  \/ fr.pc \in {"build", "zip", "hash", "read_bytes", "upload"}
  \/ fr.pc = "done" /\ (fr.raised = <<>> \/ fr.raised[1].at \notin {"remove", "mkdir"})

\* every local step of thread c's call has succeeded
LocalStepsDone(fr) ==
  \/ fr.pc = "upload"
  \/ fr.pc = "done" /\ (fr.raised = <<>> \/ fr.raised[1].at = "upload")

\* C6: when the build step starts the build directory exists and is empty;
\* once the reset is over, also in a call that fails later, nothing the
\* directory held before the call is left in it; and when all local steps have
\* succeeded it holds exactly the built directory and the zip.
C6_BuildDirReset ==
  \A c \in LibFrames :
    LET fr == frame[c]
        dir == Self(c).dir_glue_build
        new == {dir_glue_python_lib_build(Self(c)),
                path_glue_python_lib_build_zip(Self(c))}
    IN /\ fr.pc = "build" => IsDir(fs, dir) /\ Entries(fs, dir) = {}
       /\ ResetDone(fr) =>
            /\ Entries(fs, dir) \subseteq new
            /\ \A q \in fr.dir0[1] \ new : ~Exists(fs, q)
       /\ LocalStepsDone(fr) =>
            /\ Entries(fs, dir) = new
            /\ IsDir(fs, dir_glue_python_lib_build(Self(c)))
            /\ IsFile(fs, path_glue_python_lib_build_zip(Self(c)))
            /\ Basename(dir_glue_python_lib_build(Self(c))) =
                 Basename(Self(c).dir_glue_python_lib)
            /\ Basename(path_glue_python_lib_build_zip(Self(c))) = "lib.zip"

\* C6 witness: a call failed at the upload, after a reset that removed a
\* foreign file and the build and zip of an earlier call
C6_Witness ==
  /\ frame[1].pc = "done"
  /\ 1 \in LibFrames
  /\ frame[1].raised # <<>>
  /\ frame[1].raised[1].at = "upload"
  /\ Cardinality(frame[1].dir0[1]) = 3

\* the statements of GluePythonLibArtifact.put_artifact, in order
LibOrder ==
  <<"remove", "mkdir", "build", "zip", "hash", "read_bytes", "upload">>

\* C7: the steps of a library put_artifact occur in the order remove, mkdir,
\* build, zip, hash, read, repo.put_artifact; the repository is called at
\* most once and only after this call's zip was written; the content it
\* receives is the zip this call wrote, of the directory that was hashed.
C7_StepOrder ==
  \A c \in LibFrames :
    LET fr == frame[c]
    IN /\ Len(fr.trace) <= Len(LibOrder)
       /\ fr.trace = SubSeq(LibOrder, 1, Len(fr.trace))
       /\ fr.pc # "done" => fr.pc = LibOrder[Len(fr.trace) + 1]
       /\ Len(fr.calls) <= 1
       /\ \A call \in CallsOf(c) :
            /\ fr.zipped # <<>>
            /\ call.method = "put_artifact"
            /\ call.content = ZipBytes(fr.zipped[1])
            /\ fr.hashed = fr.zipped
            /\ fr.zipped = fr.built
            /\ call.metadata[HashKey(Self(c).cls)] = DirDigest(fr.zipped[1])

\* C7 witness: a second put of a library whose source changed after the first
C7_Witness ==
  /\ frame[1].pc = "done"
  /\ 1 \in LibFrames
  /\ frame[1].result.status = "ok"
  /\ path_glue_python_lib_build_zip(Self(1)) \in frame[1].dir0[1]
  /\ lastPut[KeyOf(1)].content = ZipBytes({<<<<"m.py">>, FileNode(<<5>>)>>})

\* the source directory of thread c's call is as it was when the call began
SourceIntact(c) ==
  Under(fs, Self(c).dir_glue_python_lib) = frame[c].src0[1]

\* C8 as stated: for every pair of configured paths, the source directory and
\* its files are the same during and after put_artifact as before it.
C8_SourceUntouched == \A c \in LibFrames : SourceIntact(c)

\* C8 (amended): provided dir_glue_build is not dir_glue_python_lib itself,
\* nor an ancestor of it, nor a directory inside it, the source directory and
\* its files are the same during and after put_artifact as before it.
C8_SourceUntouchedIfDisjoint ==
  \A c \in LibFrames :
    Disjoint(Self(c).dir_glue_build, Self(c).dir_glue_python_lib)
      => SourceIntact(c)

\* C8 witness: a successful put with the build directory beside the source
C8_Witness ==
  /\ frame[1].pc = "done"
  /\ 1 \in LibFrames
  /\ frame[1].result.status = "ok"
  /\ Disjoint(Self(1).dir_glue_build, Self(1).dir_glue_python_lib)
  /\ frame[1].src0[1] # <<>>
  /\ frame[1].dir0[1] # {}

\* what the metadata and tags handed to the repository are made of
C9_Calls ==
  \A c \in PutFrames : \A call \in CallsOf(c) :
    LET given == frame[c].metadata
        key == HashKey(Self(c).cls)
    IN /\ given = NOTHING => call.metadata = [k \in {key} |-> frame[c].sha]
       /\ given # NOTHING =>
            /\ DOMAIN call.metadata = {key} \cup DOMAIN given
            /\ \A k \in DOMAIN given : call.metadata[k] = given[k]
       /\ call.tags = frame[c].tags

\* the arguments of a call in progress stay what the caller passed
C9_ArgsKept ==
  \A c \in Slots :
    frame[c].pc # "idle" /\ frame'[c].pc # "idle" =>
      /\ frame'[c].metadata = frame[c].metadata
      /\ frame'[c].tags = frame[c].tags

\* C9: the metadata handed to repo.put_artifact holds every pair of the
\* caller's metadata unchanged and no key besides the hash key and the
\* caller's keys, is the one-entry hash mapping when metadata is omitted, the
\* caller's mapping is not modified, and tags is passed on unchanged.
C9_MetadataAdditional == []C9_Calls /\ [][C9_ArgsKept]_vars

\* C9 witness: a library put whose caller passed three keys, the hash keys
\* among them, and tags
C9_Witness ==
  /\ frame[1].pc = "done"
  /\ 1 \in LibFrames
  /\ frame[1].result.status = "ok"
  /\ "glue_python_lib_sha256" \in DOMAIN frame[1].metadata
  /\ frame[1].tags # NOTHING

\* the call of thread c uploads the zip of what it built from its own source,
\* with the hash of that same build
UploadsOwnBuild(c) ==
  \A call \in CallsOf(c) :
    /\ frame[c].built # <<>>
    /\ call.content = ZipBytes(frame[c].built[1])
    /\ call.metadata[HashKey(Self(c).cls)] = DirDigest(frame[c].built[1])

\* C10 as stated: whatever the interleaving of two calls that share
\* dir_glue_build, every call that reaches repo.put_artifact uploads the zip
\* of its own build with the hash of that build.
C10_ConcurrentOwnBuild == \A c \in LibFrames : UploadsOwnBuild(c)

\* C10 (amended): when the dir_glue_build directories of the two objects are
\* disjoint (not equal, neither inside the other), every concurrent call that
\* reaches repo.put_artifact uploads the zip of its own build with the hash of
\* that build.
C10_OwnBuildIfDisjoint ==
  Disjoint(obj["lib1"].dir_glue_build, obj["lib2"].dir_glue_build) =>
    \A c \in LibFrames : UploadsOwnBuild(c)

\* C10 witness: one call began and uploaded while the other was in progress
C10_Witness ==
  /\ Disjoint(obj["lib1"].dir_glue_build, obj["lib2"].dir_glue_build)
  /\ frame[1].pc = "upload"
  /\ frame[2].pc = "done"
  /\ frame[2].peers = {1}
  /\ frame[2].calls # <<>>
  /\ frame[2].result.status = "ok"

=============================================================================
